---- MODULE Spec2Model ----
(***************************************************************************)
(* Model of the two modules of the repository:                             *)
(*   src/mod_serv.py                  Account, MLTask, PredictionHistory,  *)
(*                                    TransactionHistory                   *)
(*   src/VScode/Lession1/mod_serv.py  User, Admin, MLTask,                 *)
(*                                    TransactionHistory                   *)
(* Definitions that model src/VScode/Lession1/mod_serv.py carry the prefix *)
(* L1_ where the two modules use the same name.                            *)
(*                                                                         *)
(* Money is a Python float in the code.  The model counts it in units of   *)
(* 1/Scale, so that 1.0 is Scale units and fractions of the task cost are  *)
(* representable; float rounding, NaN and infinities are outside the model.*)
(***************************************************************************)
EXTENDS Integers, Sequences, FiniteSets

VARIABLES
    balance,        \* Account.balance                       (src/mod_serv.py)
    ledger,         \* observer: initial balance and totals of successful calls
    history,        \* PredictionHistory.history             (src/mod_serv.py)
    transactions,   \* TransactionHistory.transactions       (src/mod_serv.py)
    user_balance,   \* User.balance                          (Lession1)
    l1_transactions,\* TransactionHistory.transactions       (Lession1)
    clock,          \* datetime.now(), as a logical clock
    call,           \* the last call made: its name, arguments and pre-state
    raised,         \* the exception the last call ended with, or NoError
    returned,       \* the value the last call returned, or NoValue
    predict_call    \* whether the last call invoked model.predict, and the
                    \* balance it found then

vars == <<balance, ledger, history, transactions, user_balance,
          l1_transactions, clock, call, raised, returned, predict_call>>

----------------------------------------------------------------------------
(* Bounds of the model *)

Scale == 2          \* units per 1.0
MaxDeposited == 3   \* the deposits made on the account sum to at most this
MaxBalance == 4     \* User.balance is raised to at most this
MaxData == 2        \* rows in the data of a task
MaxRecords == 3     \* records added to the three logs, together

(* 1.0, the cost of a task, in units of 1/Scale *)
TASK_COST == 1 * Scale

(* Arguments offered to the calls: negative, zero and positive amounts,    *)
(* below, at and above the cost of a task.                                 *)
Amounts == (-1)..3
InitialBalances == (-1)..2
UserIds == {1, 2}
AccountIds == {1}
TaskIds == {1}
(* Amounts recorded in the logs (never validated by the code).  Records of *)
(* src/mod_serv.py differ by their timestamps; those of Lession1 carry    *)
(* none, so their amounts vary.                                            *)
RecordAmounts == {2}
L1_RecordAmounts == {-1, 2}
Descriptions == {"task"}

----------------------------------------------------------------------------
(* Outcomes of a call *)

NoValue == [kind |-> "no_value"]
None == [kind |-> "None"]
NoError == [exc |-> "none", msg |-> "", at |-> ""]
NotCalled == [called |-> FALSE, balance |-> 0]

ValueError(msg, at) == [exc |-> "ValueError", msg |-> msg, at |-> at]
TypeError(msg, at) == [exc |-> "TypeError", msg |-> msg, at |-> at]

(* The messages of the code, in English:                                   *)
(*   "deposit must be positive"    Сумма пополнения должна быть положительной *)
(*   "withdrawal must be positive" Сумма списания должна быть положительной   *)
(*   "insufficient balance"        Недостаточно средств на балансе            *)
(*   "insufficient for task"       Недостаточно средств для выполнения задачи *)

----------------------------------------------------------------------------
(* src/mod_serv.py: Account *)

Account_init(initial_balance) == initial_balance

(* A variant of deposit with a fault: the amount is added before the check *)
Account_deposit_adds_first(bal, amount) ==
    IF amount <= 0
    THEN [balance |-> bal + amount,
          raised |-> ValueError("deposit must be positive", "Account.deposit")]
    ELSE [balance |-> bal + amount, raised |-> NoError]

Account_deposit(bal, amount) ==
    IF amount <= 0
    THEN [balance |-> bal,
          raised |-> ValueError("deposit must be positive", "Account.deposit")]
    ELSE [balance |-> bal + amount, raised |-> NoError]

(* Variants of withdraw with a fault: the two checks in the other order,   *)
(* and the sufficiency check off by one.                                   *)
Account_withdraw_checks_swapped(bal, amount) ==
    IF bal < amount
    THEN [balance |-> bal,
          raised |-> ValueError("insufficient balance", "Account.withdraw")]
    ELSE IF amount <= 0
    THEN [balance |-> bal,
          raised |-> ValueError("withdrawal must be positive", "Account.withdraw")]
    ELSE [balance |-> bal - amount, raised |-> NoError]

Account_withdraw_off_by_one(bal, amount) ==
    IF amount <= 0
    THEN [balance |-> bal,
          raised |-> ValueError("withdrawal must be positive", "Account.withdraw")]
    ELSE IF bal <= amount
    THEN [balance |-> bal,
          raised |-> ValueError("insufficient balance", "Account.withdraw")]
    ELSE [balance |-> bal - amount, raised |-> NoError]

Account_withdraw(bal, amount) ==
    IF amount <= 0
    THEN [balance |-> bal,
          raised |-> ValueError("withdrawal must be positive", "Account.withdraw")]
    ELSE IF bal < amount
    THEN [balance |-> bal,
          raised |-> ValueError("insufficient balance", "Account.withdraw")]
    ELSE [balance |-> bal - amount, raised |-> NoError]

----------------------------------------------------------------------------
(* Python values *)

PyList(items) == [kind |-> "list", items |-> items]

(* The data of a task: a list of dictionaries, or None (the List[Dict]    *)
(* annotation is not enforced).                                            *)
Rows == {[feature |-> 0]}
RowLists == UNION {[1..n -> Rows] : n \in 0..MaxData}
DataInputs == {None} \cup {PyList(rows) : rows \in RowLists}

----------------------------------------------------------------------------
(* src/mod_serv.py: ExampleMLModel, MLTask *)

(* enumerate(None) raises TypeError; confidence 0.95 is kept in hundredths *)
ExampleMLModel_predict(data) ==
    IF data.kind # "list"
    THEN [raised |-> TypeError("object is not iterable", "ExampleMLModel.predict"),
          returned |-> NoValue]
    ELSE [raised |-> NoError,
          returned |-> PyList([i \in 1..Len(data.items) |->
                          [prediction |-> (i - 1) % 2, confidence |-> 95]])]

(* Variants of execute with a fault: the balance check off by one, and    *)
(* the charge undone when model.predict raises.                            *)
MLTask_execute_off_by_one(bal, data) ==
    IF bal <= TASK_COST
    THEN [balance |-> bal,
          raised |-> ValueError("insufficient for task", "MLTask.execute"),
          returned |-> NoValue, predict_call |-> NotCalled]
    ELSE LET p == ExampleMLModel_predict(data) IN
         [balance |-> bal - TASK_COST, raised |-> p.raised,
          returned |-> p.returned,
          predict_call |-> [called |-> TRUE, balance |-> bal - TASK_COST]]

MLTask_execute_rollback(bal, data) ==
    IF bal < TASK_COST
    THEN [balance |-> bal,
          raised |-> ValueError("insufficient for task", "MLTask.execute"),
          returned |-> NoValue, predict_call |-> NotCalled]
    ELSE LET p == ExampleMLModel_predict(data) IN
         [balance |-> IF p.raised = NoError THEN bal - TASK_COST ELSE bal,
          raised |-> p.raised, returned |-> p.returned,
          predict_call |-> [called |-> TRUE, balance |-> bal - TASK_COST]]

(* execute: fields of the result are the account's balance afterwards, the *)
(* outcome of the call, and the balance model.predict found when invoked.  *)
MLTask_execute(bal, data) ==
    IF bal < TASK_COST
    THEN [balance |-> bal,
          raised |-> ValueError("insufficient for task", "MLTask.execute"),
          returned |-> NoValue, predict_call |-> NotCalled]
    ELSE LET w == Account_withdraw(bal, TASK_COST) IN
         IF w.raised # NoError
         THEN [balance |-> w.balance, raised |-> w.raised,
               returned |-> NoValue, predict_call |-> NotCalled]
         ELSE LET p == ExampleMLModel_predict(data) IN
              [balance |-> w.balance, raised |-> p.raised,
               returned |-> p.returned,
               predict_call |-> [called |-> TRUE, balance |-> w.balance]]

----------------------------------------------------------------------------
(* src/VScode/Lession1/mod_serv.py: User, Admin, ExampleMLModel, MLTask *)

User_init(initial_balance) == initial_balance

User_add_balance(bal, amount) ==
    IF amount > 0
    THEN [balance |-> bal + amount, raised |-> NoError]
    ELSE [balance |-> bal,
          raised |-> ValueError("deposit must be positive", "User.add_balance")]

(* A variant of deduct_balance with a fault: no sufficiency check *)
User_deduct_balance_unchecked(bal, amount) ==
    [balance |-> bal - amount, raised |-> NoError]

User_deduct_balance(bal, amount) ==
    IF bal >= amount
    THEN [balance |-> bal - amount, raised |-> NoError]
    ELSE [balance |-> bal,
          raised |-> ValueError("insufficient balance", "User.deduct_balance")]

Admin_add_user_balance(bal, amount) == User_add_balance(bal, amount)

L1_ExampleMLModel_predict(data) ==
    IF data.kind # "list"
    THEN [raised |-> TypeError("object is not iterable", "ExampleMLModel.predict"),
          returned |-> NoValue]
    ELSE [raised |-> NoError,
          returned |-> PyList([i \in 1..Len(data.items) |-> [prediction |-> 1]])]

L1_MLTask_execute(bal, data) ==
    IF bal >= TASK_COST
    THEN LET d == User_deduct_balance(bal, TASK_COST) IN
         IF d.raised # NoError
         THEN [balance |-> d.balance, raised |-> d.raised,
               returned |-> NoValue, predict_call |-> NotCalled]
         ELSE LET p == L1_ExampleMLModel_predict(data) IN
              [balance |-> d.balance, raised |-> p.raised,
               returned |-> p.returned,
               predict_call |-> [called |-> TRUE, balance |-> d.balance]]
    ELSE [balance |-> bal,
          raised |-> ValueError("insufficient balance", "MLTask.execute"),
          returned |-> NoValue, predict_call |-> NotCalled]

----------------------------------------------------------------------------
(* The history logs of both modules *)

(* [x for x in records if x["user_id"] == user_id] *)
RECURSIVE comprehension(_, _)
comprehension(records, user_id) ==
    IF records = <<>>
    THEN <<>>
    ELSE LET rest == comprehension(Tail(records), user_id) IN
         IF Head(records).user_id = user_id
         THEN <<Head(records)>> \o rest
         ELSE rest

(* A variant of add_prediction with a fault: insert(0, ...) for append *)
PredictionHistory_add_prediction_in_front(log, task_id, user_id, input_data, result, now) ==
    <<[task_id |-> task_id, user_id |-> user_id,
       input_data |-> input_data, result |-> result,
       timestamp |-> now]>> \o log

PredictionHistory_add_prediction(log, task_id, user_id, input_data, result, now) ==
    Append(log, [task_id |-> task_id, user_id |-> user_id,
                 input_data |-> input_data, result |-> result,
                 timestamp |-> now])

PredictionHistory_get_user_history(log, user_id) ==
    [log |-> log, returned |-> PyList(comprehension(log, user_id))]

TransactionHistory_add_transaction(log, user_id, account_id, amount, description, now) ==
    Append(log, [user_id |-> user_id, account_id |-> account_id,
                 amount |-> amount, description |-> description,
                 timestamp |-> now])

(* A variant of get_user_transactions with a fault: no filter *)
TransactionHistory_get_user_transactions_unfiltered(log, user_id) ==
    [log |-> log, returned |-> PyList(log)]

TransactionHistory_get_user_transactions(log, user_id) ==
    [log |-> log, returned |-> PyList(comprehension(log, user_id))]

L1_TransactionHistory_add_transaction(log, user_id, amount, description) ==
    Append(log, [user_id |-> user_id, amount |-> amount,
                 description |-> description])

L1_TransactionHistory_get_user_transactions(log, user_id) ==
    [log |-> log, returned |-> PyList(comprehension(log, user_id))]

----------------------------------------------------------------------------
(* Initial states: the objects as their constructors leave them *)

Ledger(initial) ==
    [initial |-> initial, deposited |-> 0, withdrawn |-> 0,
     executed |-> 0, predict_raised |-> 0]

InitLogs ==
    /\ history = <<>>
    /\ transactions = <<>>
    /\ l1_transactions = <<>>
    /\ clock = 0
    /\ call = [op |-> "init", arg |-> None, before |-> None]
    /\ raised = NoError
    /\ returned = None
    /\ predict_call = NotCalled

(* Account(user_id, initial_balance) and User(..., balance): any float is  *)
(* accepted; 0.0 is the default.                                           *)
Init ==
    /\ \E b \in InitialBalances :
          /\ balance = Account_init(b)
          /\ ledger = Ledger(b)
    /\ \E b \in InitialBalances : user_balance = User_init(b)
    /\ InitLogs

(* Both balances at the constructors' default, 0.0 *)
InitDefault ==
    /\ balance = Account_init(0)
    /\ ledger = Ledger(0)
    /\ user_balance = User_init(0)
    /\ InitLogs

(* Any account; no User object of Lession1 is in play (its default stands) *)
InitAccount ==
    /\ \E b \in InitialBalances :
          /\ balance = Account_init(b)
          /\ ledger = Ledger(b)
    /\ user_balance = User_init(0)
    /\ InitLogs

----------------------------------------------------------------------------
(* Calls on the account of src/mod_serv.py *)

Outcome(r) == IF r = NoError THEN None ELSE NoValue

Deposit(amount) ==
    /\ amount > 0 => ledger.deposited + amount <= MaxDeposited
    /\ LET r == Account_deposit(balance, amount) IN
          /\ balance' = r.balance
          /\ raised' = r.raised
          /\ returned' = Outcome(r.raised)
          /\ ledger' = IF r.raised = NoError
                       THEN [ledger EXCEPT !.deposited = @ + amount]
                       ELSE ledger
    /\ call' = [op |-> "Account.deposit", arg |-> amount, before |-> balance]
    /\ predict_call' = NotCalled
    /\ UNCHANGED <<history, transactions, user_balance, l1_transactions, clock>>

Withdraw(amount) ==
    /\ LET r == Account_withdraw(balance, amount) IN
          /\ balance' = r.balance
          /\ raised' = r.raised
          /\ returned' = Outcome(r.raised)
          /\ ledger' = IF r.raised = NoError
                       THEN [ledger EXCEPT !.withdrawn = @ + amount]
                       ELSE ledger
    /\ call' = [op |-> "Account.withdraw", arg |-> amount, before |-> balance]
    /\ predict_call' = NotCalled
    /\ UNCHANGED <<history, transactions, user_balance, l1_transactions, clock>>

Execute(data) ==
    /\ LET r == MLTask_execute(balance, data) IN
          /\ balance' = r.balance
          /\ raised' = r.raised
          /\ returned' = r.returned
          /\ predict_call' = r.predict_call
          /\ ledger' = IF r.raised = NoError
                       THEN [ledger EXCEPT !.executed = @ + 1]
                       ELSE IF r.predict_call.called
                       THEN [ledger EXCEPT !.predict_raised = @ + 1]
                       ELSE ledger
    /\ call' = [op |-> "MLTask.execute", arg |-> data, before |-> balance]
    /\ UNCHANGED <<history, transactions, user_balance, l1_transactions, clock>>

NextAccount ==
    \/ \E amount \in Amounts : Deposit(amount)
    \/ \E amount \in Amounts : Withdraw(amount)
    \/ \E data \in DataInputs : Execute(data)

----------------------------------------------------------------------------
(* Calls on the user of src/VScode/Lession1/mod_serv.py *)

AddBalance(amount) ==
    /\ amount > 0 => user_balance + amount <= MaxBalance
    /\ LET r == User_add_balance(user_balance, amount) IN
          /\ user_balance' = r.balance
          /\ raised' = r.raised
          /\ returned' = Outcome(r.raised)
    /\ call' = [op |-> "User.add_balance", arg |-> amount, before |-> user_balance]
    /\ predict_call' = NotCalled
    /\ UNCHANGED <<balance, ledger, history, transactions, l1_transactions, clock>>

DeductBalance(amount) ==
    /\ amount < 0 => user_balance - amount <= MaxBalance
    /\ LET r == User_deduct_balance(user_balance, amount) IN
          /\ user_balance' = r.balance
          /\ raised' = r.raised
          /\ returned' = Outcome(r.raised)
    /\ call' = [op |-> "User.deduct_balance", arg |-> amount, before |-> user_balance]
    /\ predict_call' = NotCalled
    /\ UNCHANGED <<balance, ledger, history, transactions, l1_transactions, clock>>

AddUserBalance(amount) ==
    /\ amount > 0 => user_balance + amount <= MaxBalance
    /\ LET r == Admin_add_user_balance(user_balance, amount) IN
          /\ user_balance' = r.balance
          /\ raised' = r.raised
          /\ returned' = Outcome(r.raised)
    /\ call' = [op |-> "Admin.add_user_balance", arg |-> amount, before |-> user_balance]
    /\ predict_call' = NotCalled
    /\ UNCHANGED <<balance, ledger, history, transactions, l1_transactions, clock>>

L1_Execute(data) ==
    /\ LET r == L1_MLTask_execute(user_balance, data) IN
          /\ user_balance' = r.balance
          /\ raised' = r.raised
          /\ returned' = r.returned
          /\ predict_call' = r.predict_call
    /\ call' = [op |-> "L1.MLTask.execute", arg |-> data, before |-> user_balance]
    /\ UNCHANGED <<balance, ledger, history, transactions, l1_transactions, clock>>

NextUser ==
    \/ \E amount \in Amounts : AddBalance(amount)
    \/ \E amount \in Amounts : DeductBalance(amount)
    \/ \E amount \in Amounts : AddUserBalance(amount)
    \/ \E data \in DataInputs : L1_Execute(data)

----------------------------------------------------------------------------
(* Calls on the history logs *)

Records == Len(history) + Len(transactions) + Len(l1_transactions)

(* The input data and the result recorded with a prediction *)
RecordedData == PyList(<<[feature |-> 0]>>)

AddPrediction(task_id, user_id, input_data, result) ==
    /\ Records < MaxRecords
    /\ history' = PredictionHistory_add_prediction(history, task_id, user_id,
                                                   input_data, result, clock)
    /\ clock' = clock + 1
    /\ call' = [op |-> "PredictionHistory.add_prediction", arg |-> user_id,
                before |-> history]
    /\ raised' = NoError
    /\ returned' = None
    /\ predict_call' = NotCalled
    /\ UNCHANGED <<balance, ledger, transactions, user_balance, l1_transactions>>

GetUserHistory(user_id) ==
    /\ LET r == PredictionHistory_get_user_history(history, user_id) IN
          /\ history' = r.log
          /\ returned' = r.returned
    /\ call' = [op |-> "PredictionHistory.get_user_history", arg |-> user_id,
                before |-> history]
    /\ raised' = NoError
    /\ predict_call' = NotCalled
    /\ UNCHANGED <<balance, ledger, transactions, user_balance, l1_transactions, clock>>

AddTransaction(user_id, account_id, amount, description) ==
    /\ Records < MaxRecords
    /\ transactions' = TransactionHistory_add_transaction(transactions, user_id,
                                      account_id, amount, description, clock)
    /\ clock' = clock + 1
    /\ call' = [op |-> "TransactionHistory.add_transaction", arg |-> user_id,
                before |-> transactions]
    /\ raised' = NoError
    /\ returned' = None
    /\ predict_call' = NotCalled
    /\ UNCHANGED <<balance, ledger, history, user_balance, l1_transactions>>

GetUserTransactions(user_id) ==
    /\ LET r == TransactionHistory_get_user_transactions(transactions, user_id) IN
          /\ transactions' = r.log
          /\ returned' = r.returned
    /\ call' = [op |-> "TransactionHistory.get_user_transactions", arg |-> user_id,
                before |-> transactions]
    /\ raised' = NoError
    /\ predict_call' = NotCalled
    /\ UNCHANGED <<balance, ledger, history, user_balance, l1_transactions, clock>>

L1_AddTransaction(user_id, amount, description) ==
    /\ Records < MaxRecords
    /\ l1_transactions' = L1_TransactionHistory_add_transaction(l1_transactions,
                                      user_id, amount, description)
    /\ call' = [op |-> "L1.TransactionHistory.add_transaction", arg |-> user_id,
                before |-> l1_transactions]
    /\ raised' = NoError
    /\ returned' = None
    /\ predict_call' = NotCalled
    /\ UNCHANGED <<balance, ledger, history, transactions, user_balance, clock>>

L1_GetUserTransactions(user_id) ==
    /\ LET r == L1_TransactionHistory_get_user_transactions(l1_transactions, user_id) IN
          /\ l1_transactions' = r.log
          /\ returned' = r.returned
    /\ call' = [op |-> "L1.TransactionHistory.get_user_transactions", arg |-> user_id,
                before |-> l1_transactions]
    /\ raised' = NoError
    /\ predict_call' = NotCalled
    /\ UNCHANGED <<balance, ledger, history, transactions, user_balance, clock>>

NextAdd ==
    \/ \E t \in TaskIds, u \in UserIds :
          AddPrediction(t, u, RecordedData, ExampleMLModel_predict(RecordedData).returned)
    \/ \E u \in UserIds, a \in AccountIds, m \in RecordAmounts, d \in Descriptions :
          AddTransaction(u, a, m, d)

NextHistory ==
    \/ NextAdd
    \/ \E u \in UserIds : GetUserHistory(u)
    \/ \E u \in UserIds : GetUserTransactions(u)
    \/ \E u \in UserIds, m \in L1_RecordAmounts, d \in Descriptions :
          L1_AddTransaction(u, m, d)
    \/ \E u \in UserIds : L1_GetUserTransactions(u)

----------------------------------------------------------------------------
(* Specifications *)

(* The balance operations of both modules *)
SpecBalance == Init /\ [][NextAccount \/ NextUser]_vars

(* The history logs of both modules *)
SpecHistory == InitDefault /\ [][NextHistory]_vars

(* src/mod_serv.py as a whole: the account and the two logs *)
Next == NextAccount \/ NextAdd

Spec == InitAccount /\ [][Next]_vars

----------------------------------------------------------------------------
(* Properties *)

AccountOps == {"Account.deposit", "Account.withdraw", "MLTask.execute"}
UserOps == {"User.add_balance", "User.deduct_balance",
            "Admin.add_user_balance", "L1.MLTask.execute"}

IsValueError(e) == e.exc = "ValueError"

(* C1: the balance of an Account of src/mod_serv.py is never negative, for *)
(* any initial_balance the constructor accepts and any sequence of         *)
(* deposit, withdraw and execute calls.                                    *)
C1_BalanceNeverNegative == balance >= 0

(* C2: a User of Lession1 whose balance is >= 0 keeps a balance >= 0 over  *)
(* every add_balance, deduct_balance, add_user_balance and execute call,   *)
(* with any amount, whether the call succeeds or raises.                   *)
C2_UserBalanceStaysNonNegative ==
    [][user_balance >= 0 => user_balance' >= 0]_vars

(* a deduct_balance call that spent the whole of a positive balance *)
C2_Witness ==
    /\ call.op = "User.deduct_balance"
    /\ call.before > 0
    /\ call.arg = call.before
    /\ raised = NoError
    /\ user_balance = 0

(* C3: Account.deposit(amount) and Account.withdraw(amount) with           *)
(* amount <= 0 raise ValueError and leave the balance unchanged, for every *)
(* balance; withdraw reports the non-positive amount even when the balance *)
(* is below the amount.                                                    *)
C3_NonPositiveAmountsRejected ==
    /\ (call.op = "Account.deposit" /\ call.arg <= 0) =>
          /\ raised = ValueError("deposit must be positive", "Account.deposit")
          /\ returned = NoValue
          /\ balance = call.before
    /\ (call.op = "Account.withdraw" /\ call.arg <= 0) =>
          /\ raised = ValueError("withdrawal must be positive", "Account.withdraw")
          /\ returned = NoValue
          /\ balance = call.before

(* withdraw of a non-positive amount from a balance below that amount *)
C3_Witness ==
    /\ call.op = "Account.withdraw"
    /\ call.arg <= 0
    /\ call.before < call.arg
    /\ raised = ValueError("withdrawal must be positive", "Account.withdraw")
    /\ balance = call.before

(* C4: User.add_balance(amount) and User.deduct_balance(amount) of         *)
(* Lession1 with amount <= 0 raise ValueError and leave the balance        *)
(* unchanged, for every balance; no deduct_balance call increases the      *)
(* balance.                                                                *)
C4_L1_NonPositiveAmountsRejected ==
    /\ (call.op = "User.add_balance" /\ call.arg <= 0) =>
          /\ IsValueError(raised)
          /\ user_balance = call.before
    /\ (call.op = "User.deduct_balance" /\ call.arg <= 0) =>
          /\ IsValueError(raised)
          /\ user_balance = call.before
    /\ call.op = "User.deduct_balance" => user_balance <= call.before

(* C5: withdraw(amount) and deduct_balance(amount) with amount > balance   *)
(* raise ValueError and leave the balance unchanged; with                  *)
(* 0 < amount <= balance they succeed and the new balance is the old one   *)
(* minus amount.                                                           *)
C5_WithdrawChecksSufficiency ==
    /\ call.op = "Account.withdraw" =>
          /\ call.arg > call.before =>
                (IsValueError(raised) /\ balance = call.before)
          /\ (0 < call.arg /\ call.arg <= call.before) =>
                (raised = NoError /\ balance = call.before - call.arg)
    /\ call.op = "User.deduct_balance" =>
          /\ call.arg > call.before =>
                (IsValueError(raised) /\ user_balance = call.before)
          /\ (0 < call.arg /\ call.arg <= call.before) =>
                (raised = NoError /\ user_balance = call.before - call.arg)

(* a withdraw of the whole balance succeeded earlier and left 0; the next  *)
(* withdraw, of a positive amount, fails                                   *)
C5_Witness ==
    /\ call.op = "Account.withdraw"
    /\ ledger.withdrawn > 0
    /\ call.before = 0
    /\ call.arg > 0
    /\ raised = ValueError("insufficient balance", "Account.withdraw")
    /\ balance = 0

GetOps == {"PredictionHistory.get_user_history",
           "TransactionHistory.get_user_transactions",
           "L1.TransactionHistory.get_user_transactions"}

IsPrefix(s, t) == Len(s) <= Len(t) /\ SubSeq(t, 1, Len(s)) = s

AppendedOne(s, t) == Len(t) = Len(s) + 1 /\ IsPrefix(s, t)

(* C6: the three logs are append-only: every add call lengthens its log by *)
(* exactly one record, placed at the end, and no call removes, reorders or *)
(* changes a record already in a log.                                      *)
C6_LogsAppendOnly ==
    [][/\ IsPrefix(history, history')
       /\ IsPrefix(transactions, transactions')
       /\ IsPrefix(l1_transactions, l1_transactions')
       /\ call'.op = "PredictionHistory.add_prediction" =>
             AppendedOne(history, history')
       /\ call'.op = "TransactionHistory.add_transaction" =>
             AppendedOne(transactions, transactions')
       /\ call'.op = "L1.TransactionHistory.add_transaction" =>
             AppendedOne(l1_transactions, l1_transactions')
       /\ call'.op \in GetOps =>
             UNCHANGED <<history, transactions, l1_transactions>>]_vars

(* a second prediction was added behind the first, the other logs holding  *)
(* records too                                                             *)
C6_Witness ==
    /\ call.op = "PredictionHistory.add_prediction"
    /\ Len(call.before) = 1
    /\ Len(history) = 2
    /\ history[1] = call.before[1]
    /\ history[2].timestamp > history[1].timestamp
    /\ Len(transactions) + Len(l1_transactions) > 0

(* The positions of user_id's records in a log, and the place of position  *)
(* i among them                                                            *)
PositionsOf(log, user_id) == {i \in 1..Len(log) : log[i].user_id = user_id}

RankOf(log, user_id, i) == Cardinality({j \in PositionsOf(log, user_id) : j <= i})

LogOf(op) ==
    IF op = "PredictionHistory.get_user_history" THEN history
    ELSE IF op = "TransactionHistory.get_user_transactions" THEN transactions
    ELSE l1_transactions

(* C7: get_user_transactions(u) and get_user_history(u) return exactly the *)
(* records whose user_id is u, each once, in the order they were added,    *)
(* and leave the log unchanged.                                            *)
C7_FilterExact ==
    call.op \in GetOps =>
       LET log == call.before
           at == PositionsOf(log, call.arg)
       IN  /\ returned.kind = "list"
           /\ Len(returned.items) = Cardinality(at)
           /\ \A i \in at : returned.items[RankOf(log, call.arg, i)] = log[i]
           /\ \A k \in 1..Len(returned.items) : returned.items[k].user_id = call.arg
           /\ LogOf(call.op) = log
           /\ raised = NoError

(* a query that kept the first and third of three transactions and left    *)
(* out the second, another user's                                          *)
C7_Witness ==
    /\ call.op = "TransactionHistory.get_user_transactions"
    /\ Len(transactions) = 3
    /\ transactions[2].user_id # call.arg
    /\ returned = PyList(<<transactions[1], transactions[3]>>)

ExecuteOps == {"MLTask.execute", "L1.MLTask.execute"}

BalanceOf(op) == IF op \in AccountOps THEN balance ELSE user_balance

PredictOf(op, data) ==
    IF op = "MLTask.execute"
    THEN ExampleMLModel_predict(data)
    ELSE L1_ExampleMLModel_predict(data)

(* C8, as stated: with a balance >= 1.0 execute succeeds, reduces the      *)
(* balance by exactly 1.0 and returns model.predict(data); with a balance  *)
(* < 1.0 it raises ValueError and leaves the balance unchanged.            *)
C8_Original ==
    call.op \in ExecuteOps =>
       /\ call.before >= TASK_COST =>
             /\ raised = NoError
             /\ BalanceOf(call.op) = call.before - TASK_COST
             /\ returned = PredictOf(call.op, call.arg).returned
       /\ call.before < TASK_COST =>
             /\ IsValueError(raised)
             /\ BalanceOf(call.op) = call.before

(* C8, amended: with a balance >= 1.0 execute passes its balance check,    *)
(* the inner withdraw / deduct_balance does not raise, the balance is      *)
(* reduced by exactly 1.0 and execute ends as model.predict(data) ends:    *)
(* with its return value, or with the exception it raises.  With a balance *)
(* < 1.0 execute raises ValueError, model.predict is not invoked and the   *)
(* balance is unchanged.                                                   *)
C8_ExecuteCharges ==
    call.op \in ExecuteOps =>
       /\ call.before >= TASK_COST =>
             /\ BalanceOf(call.op) = call.before - TASK_COST
             /\ predict_call.called
             /\ raised = PredictOf(call.op, call.arg).raised
             /\ returned = PredictOf(call.op, call.arg).returned
             /\ raised.at \notin {"MLTask.execute", "Account.withdraw",
                                  "User.deduct_balance"}
       /\ call.before < TASK_COST =>
             /\ IsValueError(raised)
             /\ raised.at = "MLTask.execute"
             /\ returned = NoValue
             /\ ~predict_call.called
             /\ BalanceOf(call.op) = call.before

(* execute on a balance of exactly 1.0 returned a prediction and left 0 *)
C8_Witness ==
    /\ call.op = "MLTask.execute"
    /\ call.before = TASK_COST
    /\ call.arg.kind = "list"
    /\ raised = NoError
    /\ returned = ExampleMLModel_predict(call.arg).returned
    /\ balance = 0

(* C9: execute charges before it invokes model.predict and never undoes    *)
(* the charge: model.predict finds the balance already reduced by 1.0, and *)
(* when it raises, execute ends with that exception and the balance stays  *)
(* reduced.                                                                *)
C9_ChargeBeforePredict ==
    call.op \in ExecuteOps =>
       /\ predict_call.called =>
             /\ predict_call.balance = call.before - TASK_COST
             /\ BalanceOf(call.op) = call.before - TASK_COST
       /\ (call.before >= TASK_COST /\ call.arg.kind # "list") =>
             /\ predict_call.called
             /\ raised = PredictOf(call.op, call.arg).raised
             /\ raised # NoError
             /\ returned = NoValue
             /\ BalanceOf(call.op) = call.before - TASK_COST

(* model.predict raised inside execute: no result, the balance reduced *)
C9_Witness ==
    /\ call.op = "MLTask.execute"
    /\ call.before >= TASK_COST
    /\ raised.exc = "TypeError"
    /\ raised.at = "ExampleMLModel.predict"
    /\ returned = NoValue
    /\ balance = call.before - TASK_COST

AddOps == {"PredictionHistory.add_prediction",
           "TransactionHistory.add_transaction"}

(* deposit, withdraw and execute add no record; add_transaction and        *)
(* add_prediction change no balance                                        *)
Frame ==
    /\ call'.op \in AccountOps =>
          UNCHANGED <<history, transactions, l1_transactions>>
    /\ call'.op \in AddOps => UNCHANGED <<balance, user_balance>>

(* C10, as stated: the balance is the initial balance plus the successful  *)
(* deposits, minus the successful withdrawals, minus 1.0 for every         *)
(* successful execute; failed calls contribute nothing; the account calls  *)
(* add no record and the add calls change no balance.                      *)
C10_Original ==
    [][/\ balance' = ledger'.initial + ledger'.deposited - ledger'.withdrawn
                        - TASK_COST * ledger'.executed
       /\ Frame]_vars

(* C10, amended: the balance is the initial balance plus the successful    *)
(* deposits, minus the successful withdrawals, minus 1.0 for every execute *)
(* that passed its balance check, the successful ones and those in which   *)
(* model.predict raised; calls that raise ValueError contribute nothing;   *)
(* the account calls add no record and the add calls change no balance.    *)
C10_Accounting ==
    [][/\ balance' = ledger'.initial + ledger'.deposited - ledger'.withdrawn
                        - TASK_COST * (ledger'.executed + ledger'.predict_raised)
       /\ Frame]_vars

(* a deposit, a withdrawal, an execute that returned and one in which      *)
(* model.predict raised have happened, the last call failed with           *)
(* ValueError, and a record is in each log of src/mod_serv.py              *)
C10_Witness ==
    /\ ledger.deposited > 0
    /\ ledger.withdrawn > 0
    /\ ledger.executed > 0
    /\ ledger.predict_raised > 0
    /\ call.op \in AccountOps
    /\ IsValueError(raised)
    /\ Len(history) > 0
    /\ Len(transactions) > 0
    /\ balance = ledger.initial + ledger.deposited - ledger.withdrawn
                    - TASK_COST * (ledger.executed + ledger.predict_raised)

====
